---- MODULE Spec2Model ----
(***************************************************************************)
(* SCMI SMC/HVC transport (drivers/firmware/arm_scmi/smc.c) as a state     *)
(* machine.  The state is the process-wide conduit pointer, the channel    *)
(* objects allocated by chan_setup, the device-managed mappings, the       *)
(* shared-memory regions and the transfers the upper layer has in flight.  *)
(* chan_setup and chan_free are single steps (the probe/remove path runs   *)
(* them one at a time); send_message is split at the conduit call, its     *)
(* one blocking point, so that sends of different transfers interleave.    *)
(* SpecRace splits the conduit resolution of chan_setup at its read of the *)
(* conduit pointer and its write of it, for two concurrent setups.         *)
(***************************************************************************)
EXTENDS Integers, Sequences, FiniteSets, TLC

(* ---------------------------------------------------------------- bounds *)
\* send_message calls in one behaviour
MaxSends == 2
\* channel objects devm_kzalloc can hand out in one behaviour
MaxAlloc == 2

(* ------------------------------------------------------- errno constants *)
ENXIO == 6
ENOMEM == 12
ENODEV == 19
EINVAL == 22
EADDRNOTAVAIL == 99

(* ------------------------------------------------------------- universes *)
\* upper-layer channel descriptors (struct scmi_chan_info); 0 is NULL
Cinfos == {1, 2, 3}
\* SCMI instances (the transport device `dev`); channels 1 and 2 belong to
\* instance 1, channel 3 to instance 2
Devs == {1, 2}
DevOf(c) == IF c = 3 THEN 2 ELSE 1
\* physical shared-memory regions.  The node of channel 3 has a "shmem"
\* phandle of its own (region 2); the nodes of channels 1 and 2 have none,
\* and the node of their instance names region 1
Regions == {1, 2}
CinfoShmem(c) == IF c = 3 THEN 2 ELSE 0
DevShmem(d) == IF d = 1 THEN 1 ELSE 0

\* a 32-bit value is two 16-bit limbs <<hi, lo>>, a 64-bit register value
\* four <<l3, l2, l1, l0>>
LimbBase == 2 ^ 16
\* the "smc-id" property of each instance's node, and the protocol each
\* channel descriptor is created for
FuncIdOf(d) == IF d = 1 THEN <<49664, 254>> ELSE <<33280, 1>>
ProtIdOf(c) == IF c = 2 THEN 20 ELSE 16
Methods == {"absent", "smc", "hvc", "trap"}
\* the transfers the upper layer submits (packed header, tx payload) and
\* the response payload the firmware writes
Requests == {[hdr |-> 65556, tx |-> <<1, 2>>], [hdr |-> 131093, tx |-> <<>>]}
RxBuf == <<7>>
PayloadIdx == {1, 2}
StatusWords ==
    { <<0, 0, 0, 0>>,                    \* 0
      <<0, 0, 0, 1>>,                    \* 1
      <<65535, 65535, 65535, 65531>>,    \* -5 at register width
      <<0, 0, 65535, 65535>>,            \* 0x00000000FFFFFFFF
      <<65535, 65535, 0, 1>> }           \* 0xFFFFFFFF00000001

(* ------------------------------------------------------------------ state *)
VARIABLES
    invoke_scmi_smc_fn,   \* "NULL", "smc" or "hvc"
    transport_info,       \* cinfo -> channel object (index into heap), 0 = NULL
    heap,                 \* the struct scmi_smc objects devm_kzalloc returned
    iomap,                \* the mappings devm_ioremap returned: mapping -> region
    mem,                  \* region -> struct scmi_shared_mem contents
    xfers,                \* instance -> slot -> transfer in flight
    last,                 \* the last vtable call that returned, and its result
    nsends,               \* send_message calls so far
    race                  \* setup thread -> position in a split chan_setup

vars == <<invoke_scmi_smc_fn, transport_info, heap, iomap, mem, xfers, last,
          nsends, race>>

(* ------------------------------------------------------ device-tree input *)
\* What one chan_setup call finds in the platform configuration and gets
\* from the allocators.  A field the call never reaches keeps its default.
DefaultInput ==
    [tx |-> TRUE, kzalloc |-> TRUE, addr_ok |-> TRUE, ioremap |-> TRUE, smcid_ok |-> TRUE, psci |-> TRUE,
     method |-> "smc"]

AllInputs ==
    [tx : BOOLEAN, kzalloc : BOOLEAN, addr_ok : BOOLEAN, ioremap : BOOLEAN, smcid_ok : BOOLEAN,
     psci : BOOLEAN, method : Methods]

\* the fields of `in` from step k on are the defaults
RestDefault(in, fields) == \A f \in fields : in[f] = DefaultInput[f]

AfterTx == {"kzalloc", "addr_ok", "ioremap", "smcid_ok",
            "psci", "method"}
AfterAlloc == AfterTx \ {"kzalloc"}
AfterShmem == {"ioremap", "smcid_ok", "psci", "method"}
AfterMap == AfterShmem \ {"ioremap"}
AfterSmcId == {"psci", "method"}
AfterPsci == {"method"}

Canonical(in) ==
    /\ ~in.tx => RestDefault(in, AfterTx)
    /\ ~in.kzalloc => RestDefault(in, AfterAlloc)
    /\ ~in.addr_ok => RestDefault(in, AfterShmem)
    /\ ~in.ioremap => RestDefault(in, AfterMap)
    /\ ~in.smcid_ok => RestDefault(in, AfterSmcId)
    /\ ~in.psci => RestDefault(in, AfterPsci)

SetupInputs == {in \in AllInputs : Canonical(in)}

(* ------------------------------------------------------- conduit selector *)
\* scmi_smc_conduit_method without its test of the pointer: every call
\* resolves again
scmi_smc_conduit_method_always(fn, method) ==
    IF method = "absent" THEN [ret |-> -ENXIO, fn |-> fn]
    ELSE IF method = "hvc" THEN [ret |-> 0, fn |-> "hvc"]
    ELSE IF method = "smc" THEN [ret |-> 0, fn |-> "smc"]
    ELSE [ret |-> -EINVAL, fn |-> fn]

\* scmi_smc_conduit_method taking any string other than "hvc" for "smc"
scmi_smc_conduit_method_default_smc(fn, method) ==
    IF fn # "NULL" THEN [ret |-> 0, fn |-> fn]
    ELSE IF method = "absent" THEN [ret |-> -ENXIO, fn |-> fn]
    ELSE IF method = "hvc" THEN [ret |-> 0, fn |-> "hvc"]
    ELSE [ret |-> 0, fn |-> "smc"]

\* scmi_smc_conduit_method reading the method before it tests the pointer
scmi_smc_conduit_method_reads_first(fn, method) ==
    IF method = "absent" THEN [ret |-> -ENXIO, fn |-> fn]
    ELSE IF fn # "NULL" THEN [ret |-> 0, fn |-> fn]
    ELSE IF method = "hvc" THEN [ret |-> 0, fn |-> "hvc"]
    ELSE IF method = "smc" THEN [ret |-> 0, fn |-> "smc"]
    ELSE [ret |-> -EINVAL, fn |-> fn]

\* scmi_smc_conduit_method(np): the new pointer and the return value, from
\* the pointer and the "method" property of np ("absent": no such property)
scmi_smc_conduit_method(fn, method) ==
    IF fn # "NULL" THEN [ret |-> 0, fn |-> fn]
    ELSE IF method = "absent" THEN [ret |-> -ENXIO, fn |-> fn]
    ELSE IF method = "hvc" THEN [ret |-> 0, fn |-> "hvc"]
    ELSE IF method = "smc" THEN [ret |-> 0, fn |-> "smc"]
    ELSE [ret |-> -EINVAL, fn |-> fn]

(* ------------------------------------------------------------- chan_setup *)
\* devm_kzalloc: a zeroed struct scmi_smc
ZeroObj == [cinfo |-> 0, shmem |-> 0, func_id |-> <<0, 0>>, prot_id |-> 0]

\* of_parse_phandle(cdev->of_node, "shmem", 0), then dev->of_node: the node
\* found names a region; 0 is a NULL node
ShmemNode(c) ==
    IF CinfoShmem(c) # 0 THEN CinfoShmem(c) ELSE DevShmem(DevOf(c))

\* of_address_to_resource(np, 0, &res)
of_address_to_resource(np, in) ==
    IF np = 0 \/ ~in.addr_ok THEN -EINVAL ELSE 0

\* a chan_setup that has returned ret (done), or has come as far as the
\* conduit resolution with object o (not done), and what it leaves behind
SetupState(done, ret, o, h, io, ti) ==
    [done |-> done, ret |-> ret, obj |-> o, heap |-> h, iomap |-> io,
     ti |-> ti]

\* setup_psci with the handle installed before the lookup
setup_psci_installed(c, o, h, io, in) ==
    IF ~in.psci
    THEN SetupState(TRUE, -ENODEV, o, h, io,
                    [transport_info EXCEPT ![c] = o])
    ELSE SetupState(FALSE, 0, o, h, io, [transport_info EXCEPT ![c] = o])

\* smc_chan_setup: of_find_node_by_path("/psci") for object o, with the heap
\* and the mappings as the earlier steps left them
setup_psci(c, o, h, io, in) ==
    IF ~in.psci
    THEN SetupState(TRUE, -ENODEV, o, h, io, transport_info)
    ELSE SetupState(FALSE, 0, o, h, io, transport_info)

\* setup_from_alloc reading "smc-id" before it maps the region
setup_from_alloc_smcid_first(c, in) ==
    LET o == Len(heap) + 1
        h1 == Append(heap, ZeroObj)
        np == ShmemNode(c)
        m == Len(iomap) + 1
        io1 == Append(iomap, np)
        h2 == [h1 EXCEPT ![o].shmem = m]
    IN  IF ~in.kzalloc
        THEN SetupState(TRUE, -ENOMEM, 0, heap, iomap, transport_info)
        ELSE IF of_address_to_resource(np, in) # 0
        THEN SetupState(TRUE, of_address_to_resource(np, in), o, h1, iomap,
                        transport_info)
        ELSE IF ~in.smcid_ok
        THEN SetupState(TRUE, -EINVAL, o, h1, iomap, transport_info)
        ELSE IF ~in.ioremap
        THEN SetupState(TRUE, -EADDRNOTAVAIL, o, h1, iomap, transport_info)
        ELSE setup_psci(c, o, h2, io1, in)

\* smc_chan_setup from devm_kzalloc to the /psci lookup
setup_from_alloc(c, in) ==
    LET o == Len(heap) + 1
        h1 == Append(heap, ZeroObj)
        np == ShmemNode(c)
        m == Len(iomap) + 1
        io1 == Append(iomap, np)
        h2 == [h1 EXCEPT ![o].shmem = m]
    IN  IF ~in.kzalloc
        THEN SetupState(TRUE, -ENOMEM, 0, heap, iomap, transport_info)
        ELSE IF of_address_to_resource(np, in) # 0
        THEN SetupState(TRUE, of_address_to_resource(np, in), o, h1, iomap,
                        transport_info)
        ELSE IF ~in.ioremap
        THEN SetupState(TRUE, -EADDRNOTAVAIL, o, h1, iomap, transport_info)
        ELSE IF ~in.smcid_ok
        THEN SetupState(TRUE, -EINVAL, o, h2, io1, transport_info)
        ELSE setup_psci(c, o, h2, io1, in)

\* setup_before_conduit with the allocation ahead of the direction test
setup_before_conduit_alloc_first(c, in) ==
    IF ~in.tx
    THEN SetupState(TRUE, -ENODEV, 0, Append(heap, ZeroObj), iomap,
                    transport_info)
    ELSE setup_from_alloc(c, in)

\* smc_chan_setup up to its call of scmi_smc_conduit_method
setup_before_conduit(c, in) ==
    IF ~in.tx
    THEN SetupState(TRUE, -ENODEV, 0, heap, iomap, transport_info)
    ELSE setup_from_alloc(c, in)

\* smc_chan_setup after the conduit is resolved: fill the object and install
\* it as the transport-private handle
setup_install(c, o, h, ti) ==
    [heap |-> [h EXCEPT ![o].func_id = FuncIdOf(DevOf(c)), ![o].cinfo = c,
                        ![o].prot_id = ProtIdOf(c)],
     ti |-> [ti EXCEPT ![c] = o]]

\* chan_setup_result going on to install the object when the resolver fails
chan_setup_result_ignores_resolver(c, in) ==
    LET pre == setup_before_conduit(c, in)
        cm == scmi_smc_conduit_method(invoke_scmi_smc_fn, in.method)
        fin == setup_install(c, pre.obj, pre.heap, pre.ti)
    IN  IF pre.done
        THEN [ret |-> pre.ret, heap |-> pre.heap, iomap |-> pre.iomap,
              fn |-> invoke_scmi_smc_fn, ti |-> pre.ti]
        ELSE [ret |-> 0, heap |-> fin.heap, iomap |-> pre.iomap,
              fn |-> cm.fn, ti |-> fin.ti]

\* chan_setup_result filling and installing the object before it resolves
\* the conduit
chan_setup_result_installs_early(c, in) ==
    LET pre == setup_before_conduit(c, in)
        cm == scmi_smc_conduit_method(invoke_scmi_smc_fn, in.method)
        fin == setup_install(c, pre.obj, pre.heap, pre.ti)
    IN  IF pre.done
        THEN [ret |-> pre.ret, heap |-> pre.heap, iomap |-> pre.iomap,
              fn |-> invoke_scmi_smc_fn, ti |-> pre.ti]
        ELSE [ret |-> cm.ret, heap |-> fin.heap, iomap |-> pre.iomap,
              fn |-> cm.fn, ti |-> fin.ti]

\* smc_chan_setup(cinfo, dev, prot_id, tx) on the current state: the return
\* value and everything the call leaves behind
chan_setup_result(c, in) ==
    LET pre == setup_before_conduit(c, in)
        cm == scmi_smc_conduit_method(invoke_scmi_smc_fn, in.method)
        fin == setup_install(c, pre.obj, pre.heap, pre.ti)
    IN  IF pre.done
        THEN [ret |-> pre.ret, heap |-> pre.heap, iomap |-> pre.iomap,
              fn |-> invoke_scmi_smc_fn, ti |-> pre.ti]
        ELSE IF cm.ret # 0
        THEN [ret |-> cm.ret, heap |-> pre.heap, iomap |-> pre.iomap,
              fn |-> cm.fn, ti |-> pre.ti]
        ELSE [ret |-> 0, heap |-> fin.heap, iomap |-> pre.iomap,
              fn |-> cm.fn, ti |-> fin.ti]

\* 1 for a node, 0 for NULL: of_node_get/of_node_put do nothing on NULL
NodeRef(np) == IF np # 0 THEN 1 ELSE 0

\* the node references smc_chan_setup takes (of_parse_phandle,
\* of_find_node_by_path) and drops (of_node_put) before it returns, for
\* conduit pointer fn at the call: <<got, put>>
setup_node_refs(c, in, fn) ==
    LET np == ShmemNode(c)
        shm == <<NodeRef(np), NodeRef(np)>>
    IN  IF ~in.tx \/ ~in.kzalloc THEN <<0, 0>>
        ELSE IF of_address_to_resource(np, in) # 0 \/ ~in.ioremap
                  \/ ~in.smcid_ok \/ ~in.psci
        THEN shm
        ELSE IF scmi_smc_conduit_method(fn, in.method).ret # 0
        THEN <<shm[1] + 1, shm[2]>>
        ELSE <<shm[1] + 1, shm[2] + 1>>

(* ------------------------------------------------------ shared-memory view *)
\* struct scmi_shared_mem as the firmware leaves it at boot: channel free
MemInit ==
    [channel_status |-> 1, flags |-> 0, length |-> 0, msg_header |-> 0,
     msg_payload |-> [i \in PayloadIdx |-> 0]]

\* memcpy_toio(shmem->msg_payload, buf, len)
WritePayload(p, buf) ==
    [i \in PayloadIdx |-> IF i <= Len(buf) THEN buf[i] ELSE p[i]]

\* shmem_tx_prepare(shmem, xfer)
shmem_tx_prepare(s, hdr, tx) ==
    [s EXCEPT !.channel_status = 0, !.flags = 0, !.length = 4 + Len(tx),
              !.msg_header = hdr, !.msg_payload = WritePayload(@, tx)]

\* the shared-memory accesses of shmem_tx_prepare, in order
PrepareAccesses ==
    <<"w:channel_status", "w:flags", "w:length", "w:msg_header",
      "w:msg_payload">>

\* shmem_read_header(shmem)
shmem_read_header(s) == s.msg_header

Max(a, b) == IF a >= b THEN a ELSE b
Min(a, b) == IF a <= b THEN a ELSE b

\* shmem_fetch_response(shmem, xfer): the payload copied out, for a receive
\* buffer of capacity cap
shmem_fetch_response(s, cap) ==
    LET n == Min(Min(Max(s.length - 4, 0), cap), Cardinality(PayloadIdx))
    IN  [i \in 1..n |-> s.msg_payload[i]]

\* the shared-memory accesses of shmem_fetch_response
FetchAccesses == <<"r:length", "r:msg_payload">>

\* shmem_poll_done(shmem, xfer)
shmem_poll_done(s) == s.channel_status % 2 = 1

(* --------------------------------------------------------- the conduit call *)
\* U32ToWord for a function id held in an int: sign extension
U32ToWord_sign_extended(f) ==
    IF f[1] >= LimbBase \div 2
    THEN <<LimbBase - 1, LimbBase - 1, f[1], f[2]>>
    ELSE <<0, 0, f[1], f[2]>>

\* u32 -> unsigned long
U32ToWord(f) == <<0, 0, f[1], f[2]>>

\* int -> unsigned long (sign extension)
IntToWord(i) ==
    LET ext == IF i < 0 THEN LimbBase - 1 ELSE 0
    IN  <<ext, ext, (i \div LimbBase) % LimbBase, i % LimbBase>>

\* unsigned long -> int: the low 32 bits, as a signed value
ulong_to_int(w) ==
    IF w[3] >= LimbBase \div 2
    THEN (w[3] - LimbBase) * LimbBase + w[4]
    ELSE w[3] * LimbBase + w[4]

\* send_ret without the mapping of positive values to 0
send_ret_unnormalised(w) == ulong_to_int(w)

\* the value smc_send_message returns for the word the conduit returned
send_ret(w) ==
    LET ret == ulong_to_int(w)
    IN  IF ret > 0 THEN 0 ELSE ret

\* what the firmware does to the region during one call: nothing, or the
\* response (header kept, length, payload, channel free)
FwOutcomes == {"none", "complete"}
FwEffect(s, fw, resp) ==
    IF fw = "none" THEN s
    ELSE [s EXCEPT !.channel_status = 1, !.length = 4 + Len(resp),
                   !.msg_payload = WritePayload(@, resp)]

(* ---------------------------------------------------------------- transfers *)
\* a transfer pool of two
max_msg_two == 1 + 1

\* scmi_smc_desc.max_msg: the transfers the upper layer keeps pending per
\* instance
max_msg == 1

XferIdx == {1, 2}
IdleXfer ==
    [pc |-> "idle", cinfo |-> 0, obj |-> 0, hdr |-> 0, tx |-> <<>>,
     conduit |-> "NULL", args |-> <<>>, fw |-> "none", fw_hdr |-> 0,
     trace |-> <<>>]

Busy(d) == {i \in XferIdx : xfers[d][i].pc # "idle"}
FreeSlot(d) == CHOOSE i \in XferIdx \ Busy(d) : \A j \in XferIdx \ Busy(d) : i <= j
InFlight(c) == \E d \in Devs, i \in XferIdx :
                   xfers[d][i].pc # "idle" /\ xfers[d][i].cinfo = c

\* RegionOf with one view kept for every channel: the first mapping made
RegionOf_first_mapping(o) == iomap[1]

\* the region behind a channel object
RegionOf(o) == iomap[heap[o].shmem]

NoInput == DefaultInput
\* a returned call: its return value (ret, or val for a bool), the inputs
\* of a chan_setup, and for a send_message the word the conduit returned,
\* the header of the transfer sent and the receive callbacks made; for a
\* fetch_response the payload copied out and the shared-memory accesses the
\* call made; for a chan_free the <<id, data>>
\* the caller passed and the channel-release upcalls made; for a chan_setup
\* the node references it took and dropped, <<got, put>>
Returned(op, c, ret, val, in) ==
    [op |-> op, cinfo |-> c, ret |-> ret, val |-> val, in |-> in,
     status |-> <<0, 0, 0, 0>>, hdr |-> 0, cb |-> <<>>, rx |-> <<>>,
     acc |-> <<>>, arg |-> <<>>, rel |-> <<>>, nodes |-> <<0, 0>>]

(* --------------------------------------------------------------------- Init *)
\* a chan_setup split at its read and its write of the conduit pointer: the
\* position of each thread running one, the descriptor and inputs of its
\* call, its object, and the pointer value it has written; and the "method"
\* property of the /psci node every such call looks up
SetupThreads == {1, 2}
IdleRace == [pc |-> "idle", cinfo |-> 0, in |-> NoInput, obj |-> 0,
             stored |-> "NULL"]
RaceInit(method) == [thr |-> [t \in SetupThreads |-> IdleRace],
                     method |-> method]

InitCommon ==
    /\ invoke_scmi_smc_fn = "NULL"
    /\ transport_info = [c \in Cinfos |-> 0]
    /\ heap = <<>>
    /\ iomap = <<>>
    /\ mem = [r \in Regions |-> MemInit]
    /\ xfers = [d \in Devs |-> [i \in XferIdx |-> IdleXfer]]
    /\ last = Returned("none", 0, 0, FALSE, NoInput)
    /\ nsends = 0

Init ==
    /\ InitCommon
    /\ race = RaceInit("smc")

InitRace ==
    /\ InitCommon
    /\ \E method \in Methods : race = RaceInit(method)

(* ------------------------------------------------------------------ actions *)
\* `last` holds the result of a call from its return until the caller has
\* taken it; no other call of the upper layer starts in between
Taken == last.op = "none"

\* smc_chan_available answering whether a channel has been set up
smc_chan_available_if_setup(d, idx) ==
    /\ Taken
    /\ last' = Returned("chan_available", 0, 0,
                        \E c \in Cinfos : transport_info[c] # 0, NoInput)
    /\ UNCHANGED <<invoke_scmi_smc_fn, transport_info, heap, iomap, mem,
                   xfers, nsends, race>>

\* smc_chan_available(dev, idx)
smc_chan_available(d, idx) ==
    /\ Taken
    /\ last' = Returned("chan_available", 0, 0, TRUE, NoInput)
    /\ UNCHANGED <<invoke_scmi_smc_fn, transport_info, heap, iomap, mem,
                   xfers, nsends, race>>

\* one call smc_chan_setup(cinfo, dev, prot_id, tx) that finds `in`
SetupCall(c, in) ==
    /\ Taken
    /\ Len(heap) < MaxAlloc
    /\ transport_info[c] = 0
    /\ LET r == chan_setup_result(c, in)
       IN  /\ heap' = r.heap
           /\ iomap' = r.iomap
           /\ invoke_scmi_smc_fn' = r.fn
           /\ transport_info' = r.ti
           /\ last' = [Returned("chan_setup", c, r.ret, FALSE, in)
                        EXCEPT !.nodes =
                          setup_node_refs(c, in, invoke_scmi_smc_fn)]
    /\ UNCHANGED <<mem, xfers, nsends, race>>

\* smc_chan_setup(cinfo, dev, prot_id, tx), on a descriptor the upper layer
\* has just allocated
smc_chan_setup(c) == \E in \in SetupInputs : SetupCall(c, in)

\* the idr ids and the opaque values the upper layer passes to chan_free
FreeIds == {16, 20}
FreeData == {1, 2}

\* chan_free_result keeping the object's back-reference
chan_free_result_keeps_backref(c) ==
    [ti |-> [transport_info EXCEPT ![c] = 0], heap |-> heap]

\* smc_chan_free: the handle and the heap after its two stores
chan_free_result(c) ==
    [ti |-> [transport_info EXCEPT ![c] = 0],
     heap |-> [heap EXCEPT ![transport_info[c]].cinfo = 0]]

\* the channel-release upcalls of smc_chan_free(id, p, data), made with the
\* handle ti and the heap h as the stores before them left them:
\* scmi_free_channel(cinfo, data, id), and the handle and the back-reference
\* of object o it finds
free_upcalls(c, o, id, data, ti, h) ==
    <<[cinfo |-> c, data |-> data, id |-> id, handle |-> ti[c],
       backref |-> h[o].cinfo]>>

\* smc_chan_free clearing the back-reference of the first object allocated
\* instead of the channel's own
smc_chan_free_first_object(c) ==
    /\ Taken
    /\ transport_info[c] # 0
    /\ ~InFlight(c)
    /\ transport_info' = [transport_info EXCEPT ![c] = 0]
    /\ heap' = [heap EXCEPT ![1].cinfo = 0]
    /\ \E id \in FreeIds, data \in FreeData :
         last' = [Returned("chan_free", c, 0, FALSE, NoInput)
                    EXCEPT !.arg = <<id, data>>,
                           !.rel = free_upcalls(c, transport_info[c], id, data,
                                                transport_info', heap')]
    /\ UNCHANGED <<invoke_scmi_smc_fn, iomap, mem, xfers, nsends, race>>

\* smc_chan_free(id, p, data), once no transfer uses the channel
smc_chan_free(c) ==
    /\ Taken
    /\ transport_info[c] # 0
    /\ ~InFlight(c)
    /\ transport_info' = chan_free_result(c).ti
    /\ heap' = chan_free_result(c).heap
    /\ \E id \in FreeIds, data \in FreeData :
         last' = [Returned("chan_free", c, 0, FALSE, NoInput)
                    EXCEPT !.arg = <<id, data>>,
                           !.rel = free_upcalls(c, transport_info[c], id, data,
                                                chan_free_result(c).ti,
                                                chan_free_result(c).heap)]
    /\ UNCHANGED <<invoke_scmi_smc_fn, iomap, mem, xfers, nsends, race>>

\* smc_send_message, up to the conduit call: the upper layer takes a free
\* transfer and shmem_tx_prepare fills the region
SendPrepare(c, hdr, tx) ==
    LET d == DevOf(c)
        o == transport_info[c]
    IN  /\ Taken
        /\ nsends < MaxSends
        /\ o # 0
        /\ Cardinality(Busy(d)) < max_msg
        /\ mem' = [mem EXCEPT ![RegionOf(o)] = shmem_tx_prepare(@, hdr, tx)]
        /\ xfers' = [xfers EXCEPT ![d][FreeSlot(d)] =
                        [IdleXfer EXCEPT !.pc = "prepared", !.cinfo = c,
                                         !.obj = o, !.hdr = hdr, !.tx = tx,
                                         !.trace = PrepareAccesses]]
        /\ nsends' = nsends + 1
        /\ UNCHANGED <<invoke_scmi_smc_fn, transport_info, heap, iomap, last,
                       race>>

\* smc_send_message enters the conduit call, and the firmware works on the
\* region during it
SendInvoke(d, i) ==
    LET x == xfers[d][i]
        o == x.obj
    IN  /\ Taken
        /\ x.pc = "prepared"
        /\ \E fw \in FwOutcomes :
             /\ mem' = [mem EXCEPT ![RegionOf(o)] = FwEffect(@, fw, RxBuf)]
             /\ xfers' = [xfers EXCEPT ![d][i] =
                   [x EXCEPT !.pc = "invoked",
                             !.conduit = invoke_scmi_smc_fn,
                             !.args = <<U32ToWord(heap[o].func_id),
                                        IntToWord(heap[o].prot_id),
                                        IntToWord(0), IntToWord(0),
                                        IntToWord(0), IntToWord(0),
                                        IntToWord(0), IntToWord(0)>>,
                             !.fw = fw,
                             !.fw_hdr = FwEffect(mem[RegionOf(o)], fw, RxBuf).msg_header,
                             !.trace = Append(@, "call")]]
        /\ UNCHANGED <<invoke_scmi_smc_fn, transport_info, heap, iomap, last,
                       nsends, race>>

\* send_callbacks delivering only when the call succeeded
send_callbacks_on_success(o, st) ==
    IF send_ret(st) < 0 THEN <<>>
    ELSE <<[cinfo |-> heap[o].cinfo,
            hdr |-> shmem_read_header(mem[RegionOf(o)])]>>

\* the receive callbacks smc_send_message makes once the conduit has
\* returned word st: scmi_rx_callback(scmi_info->cinfo, header read)
send_callbacks(o, st) ==
    <<[cinfo |-> heap[o].cinfo,
       hdr |-> shmem_read_header(mem[RegionOf(o)])]>>

\* the shared-memory accesses and upcalls of smc_send_message after the
\* conduit has returned
DeliverAccesses == <<"r:msg_header", "scmi_rx_callback">>

\* SendDeliver marking the channel free in shared memory once the call
\* has returned
SendDeliver_marks_free(d, i) ==
    LET x == xfers[d][i]
        o == x.obj
    IN  /\ Taken
        /\ x.pc = "invoked"
        /\ \E st \in StatusWords :
             last' = [Returned("send_message", x.cinfo, send_ret(st), FALSE,
                               NoInput)
                        EXCEPT !.status = st, !.hdr = x.hdr,
                               !.cb = send_callbacks(o, st)]
        /\ mem' = [mem EXCEPT ![RegionOf(o)].channel_status = 1]
        /\ xfers' = [xfers EXCEPT ![d][i] =
              [x EXCEPT !.pc = "delivered",
                        !.trace = @ \o DeliverAccesses \o <<"w:channel_status">>]]
        /\ UNCHANGED <<invoke_scmi_smc_fn, transport_info, heap, iomap,
                       nsends, race>>

\* the conduit call returns st; the rest of smc_send_message: read the
\* header, deliver it, return
SendDeliver(d, i) ==
    LET x == xfers[d][i]
        o == x.obj
    IN  /\ Taken
        /\ x.pc = "invoked"
        /\ \E st \in StatusWords :
             last' = [Returned("send_message", x.cinfo, send_ret(st), FALSE,
                               NoInput)
                        EXCEPT !.status = st, !.hdr = x.hdr,
                               !.cb = send_callbacks(o, st)]
        /\ xfers' = [xfers EXCEPT ![d][i] =
              [x EXCEPT !.pc = "delivered", !.trace = @ \o DeliverAccesses]]
        /\ UNCHANGED <<invoke_scmi_smc_fn, transport_info, heap, iomap, mem,
                       nsends, race>>

\* smc_fetch_response(cinfo, xfer), for a transfer whose send has returned:
\* every call enters shmem_fetch_response, which reads the region again
smc_fetch_response(d, i) ==
    LET x == xfers[d][i]
        o == transport_info[x.cinfo]
    IN  /\ Taken
        /\ x.pc = "delivered"
        /\ \E cap \in {1, 2} :
             last' = [Returned("fetch_response", x.cinfo, 0, FALSE, NoInput)
                        EXCEPT !.rx = shmem_fetch_response(mem[RegionOf(o)], cap),
                               !.acc = FetchAccesses]
        /\ UNCHANGED <<invoke_scmi_smc_fn, transport_info, heap, iomap, mem,
                       xfers, nsends, race>>

\* smc_poll_done testing bit 0 of the flags word
smc_poll_done_reads_flags(d, i) ==
    LET x == xfers[d][i]
        o == transport_info[x.cinfo]
    IN  /\ Taken
        /\ x.pc = "delivered"
        /\ last' = Returned("poll_done", x.cinfo, 0,
                            mem[RegionOf(o)].flags % 2 = 1, NoInput)
        /\ UNCHANGED <<invoke_scmi_smc_fn, transport_info, heap, iomap, mem,
                       xfers, nsends, race>>

\* smc_poll_done(cinfo, xfer)
smc_poll_done(d, i) ==
    LET x == xfers[d][i]
        o == transport_info[x.cinfo]
    IN  /\ Taken
        /\ x.pc = "delivered"
        /\ last' = Returned("poll_done", x.cinfo, 0,
                            shmem_poll_done(mem[RegionOf(o)]), NoInput)
        /\ UNCHANGED <<invoke_scmi_smc_fn, transport_info, heap, iomap, mem,
                       xfers, nsends, race>>

\* smc_mark_txdone(cinfo, ret)
smc_mark_txdone(d, i) ==
    LET x == xfers[d][i]
    IN  /\ Taken
        /\ x.pc = "delivered"
        /\ last' = Returned("mark_txdone", x.cinfo, 0, FALSE, NoInput)
        /\ UNCHANGED <<invoke_scmi_smc_fn, transport_info, heap, iomap, mem,
                       xfers, nsends, race>>

\* the upper layer releases the transfer
XferPut(d, i) ==
    /\ Taken
    /\ xfers[d][i].pc = "delivered"
    /\ xfers' = [xfers EXCEPT ![d][i] = IdleXfer]
    /\ UNCHANGED <<invoke_scmi_smc_fn, transport_info, heap, iomap, mem, last,
                   nsends, race>>

\* the caller takes the result of the call that returned
Return ==
    /\ ~Taken
    /\ last' = Returned("none", 0, 0, FALSE, NoInput)
    /\ UNCHANGED <<invoke_scmi_smc_fn, transport_info, heap, iomap, mem,
                   xfers, nsends, race>>

Next ==
    \/ Return
    \/ \E d \in Devs, idx \in {0, 1} : smc_chan_available(d, idx)
    \/ \E c \in Cinfos : smc_chan_setup(c)
    \/ \E c \in Cinfos : smc_chan_free(c)
    \/ \E c \in Cinfos, q \in Requests : SendPrepare(c, q.hdr, q.tx)
    \/ \E d \in Devs, i \in XferIdx : SendInvoke(d, i)
    \/ \E d \in Devs, i \in XferIdx : SendDeliver(d, i)
    \/ \E d \in Devs, i \in XferIdx : smc_fetch_response(d, i)
    \/ \E d \in Devs, i \in XferIdx : smc_poll_done(d, i)
    \/ \E d \in Devs, i \in XferIdx : smc_mark_txdone(d, i)
    \/ \E d \in Devs, i \in XferIdx : XferPut(d, i)

Spec == Init /\ [][Next]_vars

(* ------------------------------------- chan_setup over every configuration *)
\* setups and teardowns only, with every combination of step outcomes, also
\* those in which more than one step would fail
NextSetup ==
    \/ Return
    \/ \E c \in Cinfos, in \in AllInputs : SetupCall(c, in)
    \/ \E c \in Cinfos : smc_chan_free(c)

SpecSetup == Init /\ [][NextSetup]_vars

(* ------------------------------------------- two chan_setup calls at once *)
\* psci_method reading the property from a node of the call's own
psci_method_own_node(t) == IF t = 1 THEN "smc" ELSE "hvc"

\* the "method" property a call reads from the node it found at "/psci"
psci_method(t) == race.method

\* smc_chan_setup up to its call of scmi_smc_conduit_method, on a descriptor
\* no other call is setting up
RaceBegin(t, c) ==
    /\ Taken
    /\ race.thr[t].pc = "idle"
    /\ Len(heap) < MaxAlloc
    /\ transport_info[c] = 0
    /\ \A u \in SetupThreads : race.thr[u].cinfo # c
    /\ \E in \in SetupInputs :
         LET pre == setup_before_conduit(c, in)
         IN  /\ pre.done \/ in.method = psci_method(t)
             /\ heap' = pre.heap
             /\ iomap' = pre.iomap
             /\ transport_info' = pre.ti
             /\ IF pre.done
                THEN /\ last' = [Returned("chan_setup", c, pre.ret, FALSE, in)
                                  EXCEPT !.nodes =
                                    setup_node_refs(c, in, invoke_scmi_smc_fn)]
                     /\ race' = race
                ELSE /\ last' = last
                     /\ race' = [race EXCEPT !.thr[t] =
                            [IdleRace EXCEPT !.pc = "check", !.cinfo = c,
                                             !.in = in, !.obj = pre.obj]]
    /\ UNCHANGED <<invoke_scmi_smc_fn, mem, xfers, nsends>>

\* scmi_smc_conduit_method: the test of the conduit pointer
RaceCheck(t) ==
    /\ Taken
    /\ race.thr[t].pc = "check"
    /\ race' = [race EXCEPT !.thr[t].pc =
                   IF invoke_scmi_smc_fn # "NULL" THEN "finish" ELSE "resolve"]
    /\ UNCHANGED <<invoke_scmi_smc_fn, transport_info, heap, iomap, mem,
                   xfers, last, nsends>>

\* scmi_smc_conduit_method after the test found the pointer unset: read the
\* method, store the invocation or return the error
RaceResolve(t) ==
    LET r == race.thr[t]
        cm == scmi_smc_conduit_method("NULL", r.in.method)
    IN  /\ Taken
        /\ r.pc = "resolve"
        /\ IF cm.ret = 0
           THEN /\ invoke_scmi_smc_fn' = cm.fn
                /\ race' = [race EXCEPT !.thr[t].pc = "finish",
                                        !.thr[t].stored = cm.fn]
                /\ last' = last
           ELSE /\ invoke_scmi_smc_fn' = invoke_scmi_smc_fn
                /\ race' = [race EXCEPT !.thr[t] = IdleRace]
                /\ last' = [Returned("chan_setup", r.cinfo, cm.ret, FALSE,
                                      r.in)
                             EXCEPT !.nodes =
                               setup_node_refs(r.cinfo, r.in, "NULL")]
        /\ UNCHANGED <<transport_info, heap, iomap, mem, xfers, nsends>>

\* smc_chan_setup after scmi_smc_conduit_method returned 0 (the pointer is
\* set by then): of_node_put of the /psci node, fill and install the object
RaceFinish(t) ==
    LET r == race.thr[t]
        fin == setup_install(r.cinfo, r.obj, heap, transport_info)
    IN  /\ Taken
        /\ r.pc = "finish"
        /\ heap' = fin.heap
        /\ transport_info' = fin.ti
        /\ race' = [race EXCEPT !.thr[t] = IdleRace]
        /\ last' = [Returned("chan_setup", r.cinfo, 0, FALSE, r.in)
                     EXCEPT !.nodes =
                       setup_node_refs(r.cinfo, r.in, invoke_scmi_smc_fn)]
        /\ UNCHANGED <<invoke_scmi_smc_fn, iomap, mem, xfers, nsends>>

NextRace ==
    \/ Return
    \/ \E t \in SetupThreads, c \in Cinfos : RaceBegin(t, c)
    \/ \E t \in SetupThreads : RaceCheck(t)
    \/ \E t \in SetupThreads : RaceResolve(t)
    \/ \E t \in SetupThreads : RaceFinish(t)
    \/ \E c \in Cinfos : smc_chan_free(c)

SpecRace == InitRace /\ [][NextRace]_vars

(* ------------------------------------------------------------------ claims *)
WriteAccesses == {"w:channel_status", "w:flags", "w:length", "w:msg_header",
                  "w:msg_payload"}
ReadAccesses == {"r:msg_header", "r:length", "r:msg_payload",
                 "r:channel_status"}
Slots == Devs \X XferIdx
Xfer(sl) == xfers[sl[1]][sl[2]]
Outstanding(x) == x.pc \in {"prepared", "invoked"}
SetupReturns == last'.op = "chan_setup" /\ last.op = "none"

\* C1: in every send_message the five writes of prepare_tx (status, flags,
\* length, header, payload) are made, and have taken effect in the region,
\* before the conduit call; every shared-memory read (the header read for the
\* callback, a later fetch_response) comes after the call; no read precedes
\* the call and no write follows it.  A fetch_response call makes reads
\* only, on a transfer whose conduit call has been made.
C1_WritesThenCallThenReads ==
  /\ last.op = "fetch_response" =>
       /\ last.acc = FetchAccesses
       /\ \A k \in 1..Len(last.acc) : last.acc[k] \in ReadAccesses
       /\ \E sl \in Slots :
            /\ Xfer(sl).cinfo = last.cinfo
            /\ Xfer(sl).pc = "delivered"
            /\ \E k \in 1..Len(Xfer(sl).trace) : Xfer(sl).trace[k] = "call"
  /\ \A sl \in Slots :
      LET x == Xfer(sl)
          tr == x.trace
      IN  /\ \A k \in 1..Len(tr) :
               /\ tr[k] \in ReadAccesses =>
                    \E j \in 1..(k - 1) : tr[j] = "call"
               /\ tr[k] \in WriteAccesses =>
                    \A j \in 1..(k - 1) : tr[j] # "call"
               /\ tr[k] = "call" =>
                    WriteAccesses \subseteq {tr[j] : j \in 1..(k - 1)}
          /\ x.pc = "prepared" =>
               LET s == mem[RegionOf(x.obj)]
               IN  /\ s.channel_status = 0
                   /\ s.flags = 0
                   /\ s.length = 4 + Len(x.tx)
                   /\ s.msg_header = x.hdr
                   /\ \A k \in 1..Len(x.tx) : s.msg_payload[k] = x.tx[k]
          /\ x.pc = "delivered" => \E k \in 1..Len(tr) : tr[k] = "call"

\* a fetch_response has read the response of a transfer sent and delivered
C1_Witness ==
    /\ last.op = "fetch_response"
    /\ last.acc = FetchAccesses
    /\ last.rx = RxBuf
    /\ \E sl \in Slots :
         /\ Xfer(sl).pc = "delivered"
         /\ Xfer(sl).cinfo = last.cinfo
         /\ Xfer(sl).trace =
              PrepareAccesses \o <<"call">> \o DeliverAccesses

\* C2: a send_message that has returned has invoked scmi_rx_callback exactly
\* once, with the channel's upper-channel handle and the header that was in
\* shared memory when the conduit call returned, whatever the sign of the
\* status.
C2_CallbackExactlyOnce ==
    last.op = "send_message" =>
      /\ Len(last.cb) = 1
      /\ last.cb[1].cinfo = last.cinfo
      /\ \A sl \in Slots :
           (Xfer(sl).pc = "delivered" /\ Xfer(sl).cinfo = last.cinfo) =>
             last.cb[1].hdr = Xfer(sl).fw_hdr

C2_Witness ==
    /\ last.op = "send_message"
    /\ last.ret < 0
    /\ Len(last.cb) = 1
    /\ last.cb[1].hdr = last.hdr

\* C3 as stated: the status word read as a signed value of register width:
\* non-negative gives 0, negative is returned unchanged.
C3_RegisterWidthSign ==
    last.op = "send_message" =>
      /\ last.status[1] < LimbBase \div 2 => last.ret = 0
      /\ last.status[1] >= LimbBase \div 2 => IntToWord(last.ret) = last.status

\* C3 amended: send_message keeps the low 32 bits of the status word as a
\* signed int: it returns 0 when that int is zero or positive and the int
\* itself when it is negative; it never returns a positive value.
C3_LowWordSign ==
    last.op = "send_message" =>
      /\ last.ret <= 0
      /\ last.status[3] < LimbBase \div 2 => last.ret = 0
      /\ last.status[3] >= LimbBase \div 2 =>
           /\ last.ret < 0
           /\ IntToWord(last.ret)[3] = last.status[3]
           /\ IntToWord(last.ret)[4] = last.status[4]

C3_Witness ==
    /\ last.op = "send_message"
    /\ last.status = <<0, 0, 65535, 65535>>
    /\ last.ret = -1

\* C4: once the conduit pointer is set it never changes and is never reset,
\* over any sequence of chan_setup, chan_free and send_message calls.
C4_ConduitWriteOnce ==
    [][invoke_scmi_smc_fn # "NULL" =>
         invoke_scmi_smc_fn' = invoke_scmi_smc_fn]_vars

\* "smc" was resolved, then a setup read "hvc": smc is still selected
C4_Witness ==
    /\ last.op = "chan_setup"
    /\ last.ret = 0
    /\ last.in.method = "hvc"
    /\ invoke_scmi_smc_fn = "smc"

\* C5: chan_setup with is_tx = false returns -ENODEV and changes nothing: no
\* object allocated, no region mapped or accessed, conduit pointer and
\* transport-private handles as they were.
C5_RxSetupChangesNothing ==
    [][(SetupReturns /\ ~last'.in.tx) =>
         /\ last'.ret = -ENODEV
         /\ UNCHANGED <<heap, iomap, mem, invoke_scmi_smc_fn, transport_info,
                        xfers>>]_vars

C5_Witness ==
    /\ last.op = "chan_setup"
    /\ ~last.in.tx
    /\ last.ret = -ENODEV
    /\ Len(heap) = 1
    /\ invoke_scmi_smc_fn = "NULL"

\* C6 as stated: with no /psci node a transmit chan_setup returns -ENODEV
\* and no mapping created by the call is left when it returns.
C6_NoMappingRetained ==
    [][(SetupReturns /\ ~last'.in.psci) =>
         /\ last'.ret = -ENODEV
         /\ iomap' = iomap]_vars

\* C6 amended: with no /psci node a transmit chan_setup whose earlier steps
\* succeed returns -ENODEV; the mapping it created stays with the device's
\* managed resources, but no transport-private handle changes and none
\* refers to an object that holds the mapping.
C6_MappingNotInstalled ==
    [][(SetupReturns /\ ~last'.in.psci) =>
         /\ last'.ret = -ENODEV
         /\ Len(iomap') = Len(iomap) + 1
         /\ transport_info' = transport_info
         /\ \A c \in Cinfos :
              transport_info'[c] # 0 =>
                heap'[transport_info'[c]].shmem # Len(iomap')]_vars

C6_Witness ==
    /\ last.op = "chan_setup"
    /\ ~last.in.psci
    /\ last.ret = -ENODEV
    /\ Len(iomap) >= 1
    /\ heap[Len(heap)].shmem = Len(iomap)

\* C7: with the conduit not yet chosen and a method string that is neither
\* "smc" nor "hvc", a transmit chan_setup whose earlier steps succeed returns
\* -EINVAL and leaves the conduit pointer unset.
C7_InvalidMethodRejected ==
    [][(SetupReturns /\ last'.in.method = "trap"
          /\ invoke_scmi_smc_fn = "NULL") =>
         /\ last'.ret = -EINVAL
         /\ invoke_scmi_smc_fn' = "NULL"]_vars

C7_Witness ==
    /\ last.op = "chan_setup"
    /\ last.in.method = "trap"
    /\ last.ret = -EINVAL
    /\ invoke_scmi_smc_fn = "NULL"

\* C8: on any one channel at most one message is outstanding; from the
\* prepare_tx of a send to its delivery the region holds the header that
\* send wrote, and the header delivered is the one of that send's request.
C8_OneOutstanding ==
    /\ \A c \in Cinfos :
         Cardinality({sl \in Slots : Outstanding(Xfer(sl))
                                       /\ Xfer(sl).cinfo = c}) <= 1
    /\ \A sl \in Slots :
         Outstanding(Xfer(sl)) =>
           mem[RegionOf(Xfer(sl).obj)].msg_header = Xfer(sl).hdr
    /\ last.op = "send_message" =>
         \A k \in 1..Len(last.cb) : last.cb[k].hdr = last.hdr

\* a second send has delivered its own header while a transfer of the other
\* instance is outstanding
C8_Witness ==
    /\ last.op = "send_message"
    /\ nsends = 2
    /\ Len(last.cb) = 1
    /\ last.cb[1].hdr = last.hdr
    /\ \E sl \in Slots : Outstanding(Xfer(sl)) /\ Xfer(sl).hdr # last.hdr

\* C9: when two chan_setup calls resolve the conduit for the first time
\* concurrently, a value one resolution has written is never replaced by a
\* different one: the pointer holds the value every resolution stored.
C9_ResolutionsConverge ==
    \A t \in SetupThreads :
      race.thr[t].stored # "NULL" =>
        invoke_scmi_smc_fn = race.thr[t].stored

\* both calls saw the pointer unset and both have stored
C9_Witness ==
    \A t \in SetupThreads :
      race.thr[t].pc = "finish" /\ race.thr[t].stored # "NULL"

\* C10: from a successful chan_setup until chan_free the channel's object
\* (back-reference, shared-memory view, function id, protocol id) and the
\* region its view maps never change, whatever else is called.
C10_AttributesImmutable ==
    [][\A c \in Cinfos :
         (transport_info[c] # 0 /\ transport_info'[c] # 0) =>
           /\ transport_info'[c] = transport_info[c]
           /\ heap'[transport_info[c]] = heap[transport_info[c]]
           /\ iomap'[heap[transport_info[c]].shmem] =
                iomap[heap[transport_info[c]].shmem]]_vars

\* another channel was torn down while this one stays set up
C10_Witness ==
    \E c \in Cinfos :
      /\ transport_info[c] # 0
      /\ heap[transport_info[c]].cinfo = c
      /\ last.op = "chan_free"
      /\ last.cinfo # c

\* C11: chan_free on a set-up channel nulls the upper channel's handle and
\* the object's back-reference, then makes the channel-release upcall exactly
\* once with the id and the opaque value of the caller, and returns 0; no
\* object is left referring to a channel whose handle is not that object, so
\* no later receive callback goes through a stale back-reference.
C11_TeardownDetaches ==
    /\ last.op = "chan_free" =>
         /\ last.ret = 0
         /\ transport_info[last.cinfo] = 0
         /\ Len(last.rel) = 1
         /\ last.rel[1].cinfo = last.cinfo
         /\ last.rel[1].id = last.arg[1]
         /\ last.rel[1].data = last.arg[2]
         /\ last.rel[1].handle = 0
         /\ last.rel[1].backref = 0
    /\ \A o \in 1..Len(heap) :
         heap[o].cinfo # 0 => transport_info[heap[o].cinfo] = o

\* the second object was torn down with id 20 and opaque value 2
C11_Witness ==
    /\ last.op = "chan_free"
    /\ last.arg = <<20, 2>>
    /\ Len(last.rel) = 1
    /\ Len(heap) = 2
    /\ heap[2].cinfo = 0
    /\ heap[2].prot_id # 0

\* C12: every conduit call of send_message passes the function id and the
\* protocol id its channel's chan_setup stored (the instance's "smc-id", zero
\* extended, and the protocol id of the descriptor) as arguments 0 and 1 and
\* 0 for each of the other six.
C12_ConduitArguments ==
    \A sl \in Slots :
      LET x == Xfer(sl)
          f == FuncIdOf(DevOf(x.cinfo))
      IN  x.pc \in {"invoked", "delivered"} =>
            /\ Len(x.args) = 8
            /\ x.args[1] = <<0, 0, f[1], f[2]>>
            /\ x.args[2] = <<0, 0, 0, ProtIdOf(x.cinfo)>>
            /\ heap[x.obj].func_id = f
            /\ heap[x.obj].prot_id = ProtIdOf(x.cinfo)
            /\ \A k \in 3..8 : x.args[k] = <<0, 0, 0, 0>>

\* a call for channel 2: function id 0xC20000FE, protocol 0x14
C12_Witness ==
    \E sl \in Slots :
      /\ Xfer(sl).pc = "invoked"
      /\ Xfer(sl).cinfo = 2
      /\ Xfer(sl).args[1] = <<0, 0, 49664, 254>>
      /\ Xfer(sl).args[2] = <<0, 0, 0, 20>>

\* every step of chan_setup before the conduit resolution succeeds
ReachesResolver(in) ==
    /\ in.tx
    /\ in.kzalloc
    /\ in.addr_ok
    /\ in.ioremap
    /\ in.smcid_ok
    /\ in.psci

\* C13: once the conduit is chosen, a chan_setup whose other steps succeed
\* returns 0 and installs its object whatever the method property is
\* (absent, invalid, the other instruction), and the pointer is unchanged.
C13_ChosenConduitSkipsMethod ==
    [][(SetupReturns /\ invoke_scmi_smc_fn # "NULL"
          /\ ReachesResolver(last'.in)) =>
         /\ last'.ret = 0
         /\ invoke_scmi_smc_fn' = invoke_scmi_smc_fn
         /\ transport_info'[last'.cinfo] # 0]_vars

C13_Witness ==
    /\ last.op = "chan_setup"
    /\ ReachesResolver(last.in)
    /\ last.in.method = "absent"
    /\ last.ret = 0
    /\ invoke_scmi_smc_fn = "hvc"
    /\ Len(heap) = 2

\* C14: from the conduit call of a send in which the firmware completed the
\* request until the transfer is released (so until the next prepare_tx on
\* the region), bit 0 of channel_status is set and poll_done on that channel
\* returns true.
C14_PollDoneAfterCompletion ==
    /\ \A sl \in Slots :
         (Xfer(sl).pc \in {"invoked", "delivered"}
            /\ Xfer(sl).fw = "complete") =>
           mem[ShmemNode(Xfer(sl).cinfo)].channel_status % 2 = 1
    /\ last.op = "poll_done" =>
         \A sl \in Slots :
           (Xfer(sl).pc = "delivered" /\ Xfer(sl).cinfo = last.cinfo
              /\ Xfer(sl).fw = "complete") => last.val

C14_Witness ==
    /\ last.op = "poll_done"
    /\ last.val
    /\ \E sl \in Slots :
         /\ Xfer(sl).pc = "delivered"
         /\ Xfer(sl).cinfo = last.cinfo
         /\ Xfer(sl).fw = "complete"
         /\ Xfer(sl).hdr = 131093

\* C15: chan_available returns true in every state and changes nothing.
C15_AlwaysAvailable ==
    [][(last'.op = "chan_available" /\ last.op = "none") =>
         /\ last'.val
         /\ UNCHANGED <<invoke_scmi_smc_fn, transport_info, heap, iomap, mem,
                        xfers, nsends>>]_vars

\* asked after a failed setup and a teardown, with no channel set up
C15_Witness ==
    /\ last.op = "chan_available"
    /\ last.val
    /\ \A c \in Cinfos : transport_info[c] = 0
    /\ Len(heap) = 2
    /\ heap[1].prot_id # 0
    /\ heap[1].cinfo = 0
    /\ heap[2].prot_id = 0

\* the steps of chan_setup before the conduit resolution, in the order of
\* the claim, and the error each returns when it fails
SetupSteps == <<"tx", "kzalloc", "addr_ok", "ioremap", "smcid_ok", "psci">>
SetupStepError ==
    <<-ENODEV, -ENOMEM, -EINVAL, -EADDRNOTAVAIL, -EINVAL, -ENODEV>>
\* the first step that fails for `in`; 7 when the call reaches the resolver
FirstFailure(in) ==
    IF \E k \in 1..6 : ~in[SetupSteps[k]]
    THEN CHOOSE k \in 1..6 :
           ~in[SetupSteps[k]] /\ \A j \in 1..(k - 1) : in[SetupSteps[j]]
    ELSE 7
\* the resolver's error for a pointer and a method property
ResolverError(fn, method) ==
    IF fn # "NULL" \/ method \in {"smc", "hvc"} THEN 0
    ELSE IF method = "absent" THEN -ENXIO
    ELSE -EINVAL

\* C16: chan_setup checks direction, allocation, shared-memory resolution,
\* mapping, smc-id, /psci, conduit in that order: it returns the error of the
\* first step that fails, whatever the later steps would have done, and
\* performs no later step (an object is allocated only past the first two
\* steps, a mapping made only past the first four, the conduit pointer and
\* the handle written only when all six succeed).
C16_FirstFailureDecides ==
    [][SetupReturns =>
         LET in == last'.in
             k == FirstFailure(in)
         IN  /\ k <= 6 => last'.ret = SetupStepError[k]
             /\ k = 7 =>
                  last'.ret = ResolverError(invoke_scmi_smc_fn, in.method)
             /\ Len(heap') = Len(heap) + (IF k > 2 THEN 1 ELSE 0)
             /\ Len(iomap') = Len(iomap) + (IF k > 4 THEN 1 ELSE 0)
             /\ k <= 6 => invoke_scmi_smc_fn' = invoke_scmi_smc_fn
             /\ transport_info' # transport_info =>
                  (k = 7 /\ last'.ret = 0)]_vars

\* mapping, smc-id, /psci and method would all fail: the mapping decides
C16_Witness ==
    /\ last.op = "chan_setup"
    /\ last.in.tx /\ last.in.kzalloc /\ last.in.addr_ok
    /\ ~last.in.ioremap /\ ~last.in.smcid_ok /\ ~last.in.psci
    /\ last.in.method = "trap"
    /\ last.ret = -EADDRNOTAVAIL
    /\ iomap = <<>>

\* C17: sends running concurrently on channels with distinct regions keep to
\* their own channel: a region changes only in a step of a send of a channel
\* that region belongs to, each conduit call carries its own channel's ids,
\* each delivery gives its own region's header to its own upper channel, and
\* no step of a send writes the conduit pointer.
C17_SendsKeepToOwnChannel ==
    [][/\ \A r \in Regions :
            mem'[r] # mem[r] =>
              \E sl \in Slots :
                /\ xfers'[sl[1]][sl[2]] # Xfer(sl)
                /\ xfers'[sl[1]][sl[2]].pc \in {"prepared", "invoked"}
                /\ ShmemNode(xfers'[sl[1]][sl[2]].cinfo) = r
       /\ \A sl \in Slots :
            LET y == xfers'[sl[1]][sl[2]]
            IN  /\ (y # Xfer(sl) /\ y.pc = "invoked") =>
                     /\ y.conduit = invoke_scmi_smc_fn
                     /\ y.args[1] = U32ToWord(FuncIdOf(DevOf(y.cinfo)))
                     /\ y.args[2] = IntToWord(ProtIdOf(y.cinfo))
                /\ (y # Xfer(sl) /\ y.pc = "delivered"
                      /\ Xfer(sl).pc = "invoked") =>
                     /\ last'.cb = <<[cinfo |-> y.cinfo,
                                      hdr |-> mem[ShmemNode(y.cinfo)].msg_header]>>
                     /\ last'.cb[1].hdr = y.hdr
       /\ xfers' # xfers => invoke_scmi_smc_fn' = invoke_scmi_smc_fn]_vars

\* channel 3 delivered its header while the send of channel 1 is inside the
\* conduit call
C17_Witness ==
    /\ last.op = "send_message"
    /\ last.cinfo = 3
    /\ last.cb = <<[cinfo |-> 3, hdr |-> last.hdr]>>
    /\ xfers[1][1].pc = "invoked"
    /\ xfers[1][1].cinfo = 1
    /\ xfers[1][1].hdr # last.hdr
    /\ mem[1].msg_header = xfers[1][1].hdr
    /\ mem[2].msg_header = last.hdr

\* C18: whenever some upper channel has a transport-private handle the
\* conduit pointer is set, and every conduit call send_message has made went
\* through a set pointer.
C18_SetupImpliesConduit ==
    /\ (\E c \in Cinfos : transport_info[c] # 0) =>
         invoke_scmi_smc_fn # "NULL"
    /\ \A sl \in Slots :
         Xfer(sl).pc \in {"invoked", "delivered"} =>
           Xfer(sl).conduit \in {"smc", "hvc"}

C18_Witness ==
    /\ invoke_scmi_smc_fn = "hvc"
    /\ \E sl \in Slots : Xfer(sl).pc = "invoked" /\ Xfer(sl).conduit = "hvc"

\* C19: a chan_setup that returns an error leaves every transport-private
\* handle as it was; one that returns 0 installs only its own channel's
\* handle, on an object the call allocated that holds the mapping of the
\* channel's region, the function id, the protocol id and the back-reference.
C19_HandleOnlyOnSuccess ==
    [][SetupReturns =>
         LET c == last'.cinfo
         IN  /\ last'.ret # 0 => transport_info' = transport_info
             /\ last'.ret = 0 =>
                  /\ \A d \in Cinfos \ {c} :
                       transport_info'[d] = transport_info[d]
                  /\ transport_info'[c] = Len(heap) + 1
                  /\ Len(heap') = Len(heap) + 1
                  /\ heap'[transport_info'[c]] =
                       [cinfo |-> c, shmem |-> Len(iomap'),
                        func_id |-> FuncIdOf(DevOf(c)),
                        prot_id |-> ProtIdOf(c)]
                  /\ iomap'[Len(iomap')] = ShmemNode(c)]_vars

\* the resolver failed on a missing method: object and mapping exist, the
\* handle is still null
C19_Witness ==
    /\ last.op = "chan_setup"
    /\ last.ret = -ENXIO
    /\ transport_info[last.cinfo] = 0
    /\ heap[Len(heap)].shmem = Len(iomap)
    /\ heap[Len(heap)].cinfo = 0

\* C20: every node reference a chan_setup takes (the shmem node, the /psci
\* node) it drops before it returns, on every path: as many dropped as
\* taken.
C20_NodeReferencesBalanced ==
    last.op = "chan_setup" => last.nodes[1] = last.nodes[2]

====
